---------------------------- MODULE Spec2Model ----------------------------
(***************************************************************************)
(* Model of the sfy-buoy firmware core (src/sfy-buoy/src/lib.rs):          *)
(*   - StorageManager::drain_queue: the drain loop storage queue -> SD     *)
(*     card -> notecard queue, and the replay of requested ids;            *)
(*   - Location::check_retrieve: the Trying/Retrieved tracker and the      *)
(*     shared STATE (rtc, position_time, lat, lon);                        *)
(*   - the IMU interrupt that fills the storage queue.                     *)
(* The main loop is one thread of control; the IMU/RTC interrupt may run   *)
(* between any two of its steps, so every loop iteration and every         *)
(* critical section (cortex_m::interrupt::free) is one atomic action.      *)
(***************************************************************************)
EXTENDS Integers, Sequences, FiniteSets, TLC

(***************************************************************************)
(* Program constants.                                                      *)
(***************************************************************************)
STORAGEQ_SZ == 8

NOTEQ_SZ == 24

REPLAY_TAKE == 100

LOCATION_DIFF == 60000

\* axl::AXL_POSTCARD_SZ lives in axl.rs; here a record is one payload byte
\* and its frame delimiter.
AXL_POSTCARD_SZ == 2

\* storage::COLLECTION_SIZE lives in storage.rs; the value is the one the
\* specification's replay example uses.
COLLECTION_SIZE == 5

(***************************************************************************)
(* Bounds of the model.                                                    *)
(***************************************************************************)
\* collection files have at most MaxFileLen bytes
MaxFileLen == 4

\* packets the IMU interrupt completes in one run
MaxPackets == 2

\* ids already on the SD card at start are 0 .. StoredAtStart - 1
StoredAtStart == 9

\* request ranges at start have bounds in 0 .. MaxReq (plus one long range)
MaxReq == 9

\* drain_queue calls in one run
MaxCalls == 2

\* the rtc is not ticked beyond this reading (ms)
MaxClock == 200000

\* the rtc is observed every TickMs milliseconds
TickMs == 30000

(***************************************************************************)
(* Option and Result values.                                               *)
(***************************************************************************)
None == <<>>

Some(x) == <<x>>

IsSome(o) == o # <<>>

Unwrap(o) == o[1]

Ok(v) == [ok |-> TRUE, val |-> v, err |-> "-"]

Err(e) == [ok |-> FALSE, val |-> None, err |-> e]

Min(a, b) == IF a <= b THEN a ELSE b

\* errors of the SD card other than FileNotFound
StorageErrs == {"WriteError", "DeviceError"}

\* ids of the records that may be missing on the card
MissingCandidates == {5, 7}

(***************************************************************************)
(* heapless::spsc::Queue<T, N>: a ring of N slots holding at most N - 1    *)
(* items; enqueue gives the item back when full, dequeue gives None when   *)
(* empty.                                                                  *)
(***************************************************************************)
Capacity(n) == n - 1

IsFull(q, n) == Len(q) >= Capacity(n)

\* a ring that overwrites its oldest item when full
EnqueueOverwrite(q, n, x) ==
    IF IsFull(q, n) THEN Append(Tail(q), x) ELSE Append(q, x)

Enqueue(q, n, x) == IF IsFull(q, n) THEN q ELSE Append(q, x)

ImuPacket(k) == [src |-> "imu", n |-> k]

SdPacket(id) == [src |-> "sd", n |-> id]

OldPacket(k) == [src |-> "old", n |-> k]

VARIABLES
    \* StorageManager and its queues
    storage,        \* StorageManager.storage is Some (TRUE) or None (FALSE)
    storage_queue,  \* STORAGEQ
    note_queue,     \* NOTEQ
    \* the SD card (storage.rs) and the notecard's storage info
    sd_present,     \* ids get() finds
    sd_next,        \* the id the next store() assigns
    peer_range,     \* <<request_start, request_end>> held by the notecard
    peer_last_id,   \* current_id held by the notecard
    \* IMU interrupt
    acquired,       \* packets completed so far
    calls,          \* drain_queue calls made so far
    \* drain_queue in progress
    pc,             \* "idle" | "drain" | "resync" | "replay" | "done" | "panic"
    e,              \* the local e
    last_id,        \* the local last_id
    request_start,  \* the matched request_start
    request_end,    \* the matched request_end
    iter,           \* iterations the for loop has started
    \* what the current (or last) drain_queue call did
    dequeued,       \* packets taken from the storage queue
    note_at_call,   \* the notecard queue when the call started
    store_log,      \* the result of each store()
    fetched,        \* ids passed to get(), in order
    sent,           \* ids of the records enqueued by the replay
    last_write,     \* the range of the last write_storage_info
    range_read,     \* the range read_storage_info matched
    info_read,      \* <<what read_storage_info returned>>
    replay_exit,    \* how the for loop was left: "end" | "full" | "error"
    ret             \* <<the value returned>>, <<>> while running

svars == <<storage, storage_queue, note_queue, sd_present, sd_next, peer_range,
           peer_last_id, acquired, calls, pc, e, last_id, request_start,
           request_end, iter, dequeued, note_at_call, store_log, fetched, sent,
           last_write, range_read, info_read, replay_exit, ret>>

VARIABLES
    \* STATE: SharedState behind the interrupt-free mutex
    rtc,            \* state.rtc.now().timestamp_millis()
    position_time,  \* state.position_time
    lat,            \* state.lat
    lon,            \* state.lon
    \* the Location tracker
    loc,            \* [lat, lon, position_time, time, state]
    \* Location::check_retrieve in progress
    lpc,            \* "idle" | "set_rtc" | "set_pos" | "set_state" | "done"
    now,            \* the local now
    gps,            \* the local gps: [lat, lon, time], each an Option
    tm,             \* the local tm: the Result of time().wait()
    \* what the current (or last) check did
    contacted,      \* this check sent a request to the notecard
    since_contact,  \* Some(ms ticked since the last check that did), capped
    contact_gap,    \* since_contact as it was when this check contacted
    loc_ret,        \* <<the value returned>>
        \* the interrupt's last read of STATE: the position fields, whether a
    \* check that obtained both time and position was in progress, and which
    \* of its critical sections had run
    isr

lvars == <<rtc, position_time, lat, lon, loc, lpc, now, gps, tm, contacted,
           since_contact, contact_gap, loc_ret, isr>>

VARIABLES
    \* the environment of a run
    faults          \* the card and the notecard may fail or not be ready

VARIABLES
    \* Imu: the wave buffer and the interrupt's last poll
    wave_full,      \* waves.is_full() as the last poll left it
    imu_ret         \* <<the value the last check_retrieve returned>>

avars == <<wave_full, imu_ret>>

VARIABLES
    \* sfypack: Collection::from_file in progress
    file,           \* the bytes std::fs::read gave
    cpc,            \* "idle" | "decode" | "done"
    pcks,           \* the packets collected so far
    tried,          \* chunks handed to postcard::from_bytes_cobs
    coll_ret        \* <<the value returned>>

cvars == <<file, cpc, pcks, tried, coll_ret>>

vars == <<faults, svars, avars, lvars, cvars>>

(***************************************************************************)
(* Initial states: the manager built with or without storage, the queues  *)
(* as the interrupt and the previous cycles left them, some records       *)
(* missing on the card, and any request the notecard may hold.            *)
(***************************************************************************)
LongRange == <<Some(0), Some(REPLAY_TAKE + MaxReq)>>

RequestRanges ==
    {<<None, None>>}
        \cup {r \in {<<Some(s), Some(t)>> : s \in {0, 5, 8}, t \in 5 .. MaxReq} :
                  Unwrap(r[1]) <= Unwrap(r[2])}

NotePrefills == {0, Capacity(NOTEQ_SZ) - 1}

\* ranges: the requests the notecard may hold; sq: the storage queue; a:
\* packets the interrupt has completed in this run; c: drain_queue calls made
\* before
StorageInitFrom(ranges, sq, a, c) ==
    /\ storage \in BOOLEAN
    /\ storage_queue = sq
    /\ \E k \in NotePrefills : note_queue = [j \in 1 .. k |-> OldPacket(j)]
    /\ \E m \in SUBSET MissingCandidates :
           sd_present = (0 .. StoredAtStart - 1) \ m
    /\ sd_next = StoredAtStart
    /\ peer_range \in ranges
    /\ peer_last_id = 0
    /\ acquired = a
    /\ calls = c
    /\ pc = "idle"
    /\ e = Ok(None)
    /\ last_id = 0
    /\ request_start = 0
    /\ request_end = 0
    /\ iter = 0
    /\ dequeued = <<>>
    /\ note_at_call = <<>>
    /\ store_log = <<>>
    /\ fetched = <<>>
    /\ sent = <<>>
    /\ last_write = None
    /\ range_read = None
    /\ info_read = <<>>
    /\ replay_exit = "-"
    /\ ret = <<>>

\* the a packets of this run are still on the storage queue
StorageInitWith(ranges, a, c) ==
    StorageInitFrom(ranges, [j \in 1 .. a |-> ImuPacket(j)], a, c)

StorageInit == StorageInitWith(RequestRanges, 0, 0)

(***************************************************************************)
(* Imu::check_retrieve, run by the interrupt: a completed buffer becomes a *)
(* packet and is enqueued on the storage queue; a full queue drops it.     *)
(***************************************************************************)
ImuOutcomes == {"read_err", "not_full", "take_err", "packet"}

\* an enqueue that makes room by dropping the newest queued packet
EnqueueReplaceNewest(q, n, x) ==
    IF IsFull(q, n) THEN Append(SubSeq(q, 1, Len(q) - 1), x) ELSE Append(q, x)

\* self.queue.enqueue(pck) ... .ok()
ImuEnqueue(q, n, x) == Enqueue(q, n, x)

\* no poll has returned yet; the wave buffer is being filled
ImuInit ==
    /\ wave_full = FALSE
    /\ imu_ret = <<>>

ImuCheckRetrieve ==
    /\ pc # "panic"
    /\ acquired < MaxPackets
    /\ \E out \in ImuOutcomes :
           CASE out = "read_err" ->
                  \* self.waves.read_and_filter()?
                  /\ imu_ret' = <<Err("ReadError")>>
                  /\ UNCHANGED <<wave_full, acquired, storage_queue>>
             [] out = "not_full" ->
                  \* the samples read do not fill the buffer
                  /\ ~wave_full
                  /\ imu_ret' = <<Ok(None)>>
                  /\ UNCHANGED <<wave_full, acquired, storage_queue>>
             [] out = "take_err" ->
                  \* self.waves.take_buf(...)? fails on the full buffer
                  /\ imu_ret' = <<Err("TakeError")>>
                  /\ wave_full' \in BOOLEAN
                  /\ UNCHANGED <<acquired, storage_queue>>
             [] out = "packet" ->
                  \* take_buf gives the packet and clears the buffer
                  /\ imu_ret' = <<Ok(None)>>
                  /\ wave_full' = FALSE
                  /\ acquired' = acquired + 1
                  /\ storage_queue' =
                         ImuEnqueue(storage_queue, STORAGEQ_SZ,
                                    ImuPacket(acquired + 1))
    /\ UNCHANGED <<storage, note_queue, sd_present, sd_next, peer_range,
                   peer_last_id, calls, pc, e, last_id, request_start,
                   request_end, iter, dequeued, note_at_call, store_log,
                   fetched, sent, last_write, range_read, info_read,
                   replay_exit, ret>>
    /\ UNCHANGED <<faults, lvars, cvars>>

\* the interrupt does not stop after the MaxPackets numbered packets of a
\* run: the packets it completes then carry the last number
ImuOverrun ==
    /\ pc # "panic"
    /\ acquired = MaxPackets
    /\ storage_queue' =
           ImuEnqueue(storage_queue, STORAGEQ_SZ, ImuPacket(MaxPackets))
    /\ UNCHANGED <<storage, note_queue, sd_present, sd_next, peer_range,
                   peer_last_id, acquired, calls, pc, e, last_id, request_start,
                   request_end, iter, dequeued, note_at_call, store_log,
                   fetched, sent, last_write, range_read, info_read,
                   replay_exit, ret>>
    /\ imu_ret' = <<Ok(None)>>
    /\ wave_full' = FALSE
    /\ UNCHANGED <<faults, lvars, cvars>>

(***************************************************************************)
(* The consumer of the notecard queue (the main loop's uplink stage) runs  *)
(* between two drain_queue calls and empties the queue.                    *)
(***************************************************************************)
NoteDrain ==
    /\ pc = "idle"
    /\ note_queue # <<>>
    /\ note_queue' = <<>>
    /\ UNCHANGED <<storage, storage_queue, sd_present, sd_next, peer_range,
                   peer_last_id, acquired, calls, pc, e, last_id, request_start,
                   request_end, iter, dequeued, note_at_call, store_log,
                   fetched, sent, last_write, range_read, info_read,
                   replay_exit, ret>>
    /\ UNCHANGED <<faults, avars, lvars, cvars>>

(***************************************************************************)
(* StorageManager::drain_queue.                                            *)
(***************************************************************************)
\* let mut e = Ok(None);
DrainQueueCall ==
    /\ pc = "idle"
    /\ calls < MaxCalls
    /\ calls' = calls + 1
    /\ pc' = "drain"
    /\ e' = Ok(None)
    /\ note_at_call' = note_queue
    /\ UNCHANGED <<storage, storage_queue, note_queue, sd_present, sd_next,
                   peer_range, peer_last_id, acquired, last_id, request_start,
                   request_end, iter, dequeued, store_log, fetched, sent,
                   last_write, range_read, info_read,
                   replay_exit, ret>>
    /\ UNCHANGED <<faults, avars, lvars, cvars>>

\* the errors the card may give in this run
CardErrs == IF faults THEN StorageErrs ELSE {}

\* the main loop goes on calling drain_queue: the calls after the MaxCalls
\* numbered ones of a run are not counted
DrainQueueRecall ==
    /\ pc = "idle"
    /\ calls = MaxCalls
    /\ pc' = "drain"
    /\ e' = Ok(None)
    /\ note_at_call' = note_queue
    /\ UNCHANGED <<storage, storage_queue, note_queue, sd_present, sd_next,
                   peer_range, peer_last_id, acquired, calls, last_id,
                   request_start, request_end, iter, dequeued, store_log,
                   fetched, sent, last_write, range_read, info_read,
                   replay_exit, ret>>
    /\ UNCHANGED <<faults, avars, lvars, cvars>>

\* storage.store(&mut pck) ... .map(|id| Some(id))
StoreOutcomes == {"ok"} \cup CardErrs

\* the card has room for the ids below CardIds; store() fails on a full card
CardIds == StoredAtStart + MaxPackets

StoreOutcomesAt(next) ==
    IF next < CardIds THEN StoreOutcomes ELSE StoreOutcomes \ {"ok"}

\* dequeued keeps the first DequeueLogLen entries of a call and store_log
\* the first StoreLogLen
DequeueLogLen == Capacity(STORAGEQ_SZ) + MaxPackets

StoreLogLen == MaxPackets

Logged(l, x, n) == IF Len(l) < n THEN Append(l, x) ELSE l

StoreResult(out, id) == IF out = "ok" THEN Ok(Some(id)) ELSE Err(out)

\* a drain loop that gave up on a packet store() failed for
ForwardOnlyStored(q, pck, stored) ==
    IF stored.ok THEN Enqueue(q, NOTEQ_SZ, pck) ELSE q

\* self.note_queue.enqueue(pck) ... .ok(): whatever store() gave
ForwardToNote(q, pck, stored) == Enqueue(q, NOTEQ_SZ, pck)

\* one iteration of: while let Some(mut pck) = self.storage_queue.dequeue()
DrainLoopStep ==
    /\ pc = "drain"
    /\ storage_queue # <<>>
    /\ LET pck == Head(storage_queue) IN
       /\ storage_queue' = Tail(storage_queue)
       /\ dequeued' = Logged(dequeued, pck, DequeueLogLen)
       /\ IF storage
          THEN \E out \in StoreOutcomesAt(sd_next) :
                   LET r == StoreResult(out, sd_next) IN
                   /\ e' = r
                   /\ store_log' = Logged(store_log, r, StoreLogLen)
                   /\ sd_present' = IF r.ok THEN sd_present \cup {sd_next}
                                            ELSE sd_present
                   /\ sd_next' = IF r.ok THEN sd_next + 1 ELSE sd_next
                   /\ note_queue' = ForwardToNote(note_queue, pck, r)
          ELSE /\ note_queue' = ForwardToNote(note_queue, pck, Ok(None))
               /\ UNCHANGED <<e, store_log, sd_present, sd_next>>
    /\ UNCHANGED <<storage, peer_range, peer_last_id, acquired, calls, pc,
                   last_id, request_start, request_end, iter, note_at_call,
                   fetched, sent, last_write, range_read, info_read,
                   replay_exit, ret>>
    /\ UNCHANGED <<faults, avars, lvars, cvars>>

\* dequeue() gave None: the loop is left
DrainLoopExit ==
    /\ pc = "drain"
    /\ storage_queue = <<>>
    /\ pc' = "resync"
    /\ UNCHANGED <<storage, storage_queue, note_queue, sd_present, sd_next,
                   peer_range, peer_last_id, acquired, calls, e, last_id,
                   request_start, request_end, iter, dequeued, note_at_call,
                   store_log, fetched, sent, last_write, range_read,
                   info_read, replay_exit, ret>>
    /\ UNCHANGED <<faults, avars, lvars, cvars>>

\* write_storage_info reaches the notecard (TRUE) or fails (FALSE)
WriteOutcomes == IF faults THEN BOOLEAN ELSE {TRUE}

\* note.write_storage_info(delay, last_id, start, end) ... .ok(): a failed
\* write is logged and leaves the notecard's info as it was
WriteStorageInfo(id, range) ==
    /\ last_write' = Some(range)
    /\ \E written \in WriteOutcomes :
           IF written
           THEN peer_range' = range /\ peer_last_id' = id
           ELSE UNCHANGED <<peer_range, peer_last_id>>

\* storage.current_id(): the highest id assigned, or None
CurrentIds == (IF faults THEN {None} ELSE {}) \cup {Some(sd_next - 1)}

\* note.read_storage_info(delay): Ok(Some(info)), Ok(None) or Err
ReadOutcomes == {"info"} \cup (IF faults THEN {"none", "err"} ELSE {})

\* the value of the call: the info holds the range the notecard holds
ReadResult(rd, range) ==
    CASE rd = "info" -> Ok(Some(range))
      [] rd = "none" -> Ok(None)
      [] OTHER -> Err("NoteError")

\* the if-let pattern: Ok(Some(.. request_start: Some, request_end: Some))
MatchesRequest(rd, range) ==
    rd = "info" /\ IsSome(range[1]) /\ IsSome(range[2])

\* a resync that does not look whether there is storage
HasStorageAlways(s) == TRUE

\* if let Some(storage) = &mut self.storage
HasStorage(s) == s

\* the code after the drain loop, up to the for loop or the else branch
Resync ==
    /\ pc = "resync"
    /\ IF ~HasStorage(storage)
       THEN /\ pc' = "done"
            /\ ret' = <<e>>
            /\ UNCHANGED <<last_id, request_start, request_end, iter,
                           range_read, info_read, replay_exit, last_write,
                           peer_range, peer_last_id>>
       ELSE \E cur \in CurrentIds :
            IF ~IsSome(cur)
            THEN \* current_id().unwrap() on None
                 /\ pc' = "panic"
                 /\ UNCHANGED <<last_id, request_start, request_end, iter,
                                range_read, info_read, replay_exit, last_write,
                                peer_range, peer_last_id, ret>>
            ELSE /\ last_id' = Unwrap(cur)
                 /\ \E rd \in ReadOutcomes :
                    /\ info_read' = <<ReadResult(rd, peer_range)>>
                    /\ IF MatchesRequest(rd, peer_range)
                       THEN /\ request_start' = Unwrap(peer_range[1])
                            /\ request_end' = Unwrap(peer_range[2])
                            /\ range_read' = Some(peer_range)
                            /\ iter' = 0
                            /\ pc' = "replay"
                            /\ UNCHANGED <<last_write, peer_range,
                                           peer_last_id, replay_exit, ret>>
                       ELSE /\ WriteStorageInfo(Unwrap(cur), <<None, None>>)
                            /\ pc' = "done"
                            /\ ret' = <<e>>
                            /\ UNCHANGED <<request_start, request_end, iter,
                                           range_read, replay_exit>>
    /\ UNCHANGED <<storage, storage_queue, note_queue, sd_present, sd_next,
                   acquired, calls, e, dequeued, note_at_call, store_log, fetched,
                   sent>>
    /\ UNCHANGED <<faults, avars, lvars, cvars>>

\* a for loop over request_start..request_end without take(100)
ReplayHasNextNoTake(i, rs, re) == rs + i < re

\* (request_start..request_end).take(100) has a next id after i iterations
ReplayHasNext(i, rs, re) == i < REPLAY_TAKE /\ rs + i < re

\* lines 327-334: the range written after a record was enqueued
SentRange(rs, re) ==
    LET s == Min(rs + 1, re)
    IN  IF s = re THEN <<None, None>> ELSE <<Some(s), Some(re)>>

\* lines 358-364: the range written after FileNotFound for id
SkipRange(id, re) ==
    LET s == (id \div COLLECTION_SIZE + 1) * COLLECTION_SIZE
    IN  IF s = re THEN <<None, None>> ELSE <<Some(s), Some(re)>>

\* a replay that leaves the loop on an error as it does on a full queue
ReplayAbortAsBreak(out, drained) == drained

\* Err(e) => return Err(e): out is the error of get(), drained the local e
ReplayAbort(out, drained) == Err(out)

\* storage.get(id)
GetOutcomes(id) ==
    (IF id \in sd_present THEN {"ok"} ELSE {"FileNotFound"}) \cup CardErrs

\* one iteration of the for loop
ReplayStep ==
    /\ pc = "replay"
    /\ ReplayHasNext(iter, request_start, request_end)
    /\ LET id == request_start + iter IN
       /\ fetched' = Append(fetched, id)
       /\ iter' = iter + 1
       /\ \E out \in GetOutcomes(id) :
          CASE out = "ok" ->
                 IF IsFull(note_queue, NOTEQ_SZ)
                 THEN \* break: queue is full
                      /\ pc' = "done"
                      /\ replay_exit' = "full"
                      /\ ret' = <<e>>
                      /\ UNCHANGED <<note_queue, sent, last_write, peer_range,
                                     peer_last_id>>
                 ELSE /\ note_queue' = Enqueue(note_queue, NOTEQ_SZ, SdPacket(id))
                      /\ sent' = Append(sent, id)
                      /\ WriteStorageInfo(last_id,
                                          SentRange(request_start, request_end))
                      /\ UNCHANGED <<pc, ret, replay_exit>>
            [] out = "FileNotFound" ->
                 /\ WriteStorageInfo(last_id, SkipRange(id, request_end))
                 /\ UNCHANGED <<note_queue, sent, pc, ret, replay_exit>>
            [] OTHER ->
                 \* return Err(e)
                 /\ pc' = "done"
                 /\ replay_exit' = "error"
                 /\ ret' = <<ReplayAbort(out, e)>>
                 /\ UNCHANGED <<note_queue, sent, last_write, peer_range,
                                peer_last_id>>
    /\ UNCHANGED <<storage, storage_queue, sd_present, sd_next, acquired, calls, e,
                   last_id, request_start, request_end, dequeued, note_at_call,
                   store_log, range_read, info_read>>
    /\ UNCHANGED <<faults, avars, lvars, cvars>>

\* the for loop is exhausted: the function returns e
ReplayEnd ==
    /\ pc = "replay"
    /\ ~ReplayHasNext(iter, request_start, request_end)
    /\ pc' = "done"
    /\ replay_exit' = "end"
    /\ ret' = <<e>>
    /\ UNCHANGED <<storage, storage_queue, note_queue, sd_present, sd_next,
                   peer_range, peer_last_id, acquired, calls, e, last_id,
                   request_start, request_end, iter, dequeued, note_at_call,
                   store_log, fetched, sent, last_write, range_read,
                   info_read>>
    /\ UNCHANGED <<faults, avars, lvars, cvars>>

\* the caller has the result; the locals of the call are gone
DrainQueueDone ==
    /\ pc = "done"
    /\ pc' = "idle"
    /\ e' = Ok(None)
    /\ last_id' = 0
    /\ request_start' = 0
    /\ request_end' = 0
    /\ iter' = 0
    /\ dequeued' = <<>>
    /\ note_at_call' = <<>>
    /\ store_log' = <<>>
    /\ fetched' = <<>>
    /\ sent' = <<>>
    /\ last_write' = None
    /\ range_read' = None
    /\ info_read' = <<>>
    /\ replay_exit' = "-"
    /\ ret' = <<>>
    /\ UNCHANGED <<storage, storage_queue, note_queue, sd_present, sd_next,
                   peer_range, peer_last_id, acquired, calls>>
    /\ UNCHANGED <<faults, avars, lvars, cvars>>

(***************************************************************************)
(* Location::check_retrieve and the shared STATE.                          *)
(***************************************************************************)
Trying(t) == [tag |-> "Trying", t |-> t]

Retrieved(t) == [tag |-> "Retrieved", t |-> t]

\* card.time answers in seconds; the rtc is read in milliseconds
MsOfSeconds(s) == s * 1000

\* what the notecard may answer
PeerTimes == {100}

PeerLats == {60}

PeerLons == {5}

PeerPositionTimes == {90}

Opt(S) == {None} \cup {Some(x) : x \in S}

\* note.card().location(delay)?.wait(delay)?
GpsAnswers ==
    [lat : Opt(PeerLats), lon : Opt(PeerLons), time : Opt(PeerPositionTimes)]

\* note.card().time(delay)?.wait(delay): Err, or Time with time: Option
TimeAnswers == {Err("NoteError")} \cup {Ok(o) : o \in Opt(PeerTimes)}

NoGps == [lat |-> None, lon |-> None, time |-> None]

\* if let Ok(Time { time: Some(time), .. }) = tm
HasTime(r) == r.ok /\ IsSome(r.val)

\* if let Location { lat: Some, lon: Some, time: Some, .. } = gps
HasPosition(g) == IsSome(g.lat) /\ IsSome(g.lon) /\ IsSome(g.time)

\* if let (Ok(Time { time: Some(_), .. }), Location { lat: Some(_), .. })
BothRetrieved(r, g) == HasTime(r) /\ IsSome(g.lat)

\* a guard that also passes at the threshold itself
ElapsedAtThreshold(n, st) == (n - st.t) >= LOCATION_DIFF

\* Retrieved(t) | Trying(t) if (now - t) > LOCATION_DIFF
Elapsed(n, st) == (n - st.t) > LOCATION_DIFF

\* main: the rtc starts at 1970-01-01 00:00:00; Location::new()
LocationInit ==
    /\ rtc = 0
    /\ position_time = 0
    /\ lat = 0
    /\ lon = 0
    /\ loc = [lat |-> 0, lon |-> 0, position_time |-> 0, time |-> 0,
              state |-> Trying(-999)]
    /\ lpc = "idle"
    /\ now = 0
    /\ gps = NoGps
    /\ tm = Err("-")
    /\ contacted = FALSE
    /\ since_contact = None
    /\ contact_gap = None
    /\ loc_ret = <<>>
    /\ isr = [position_time |-> 0, lat |-> 0, lon |-> 0, both |-> FALSE,
              clock_set |-> FALSE, position_set |-> FALSE]

\* the rtc runs
Tick ==
    /\ rtc + TickMs <= MaxClock
    /\ rtc' = rtc + TickMs
    /\ since_contact' = IF IsSome(since_contact)
                        THEN Some(Min(Unwrap(since_contact) + TickMs,
                                      LOCATION_DIFF))
                        ELSE None
    /\ UNCHANGED <<position_time, lat, lon, loc, lpc, now, gps, tm, contacted,
                   contact_gap, loc_ret, isr>>
    /\ UNCHANGED <<faults, svars, avars, cvars>>

\* lines 129-135: read now, test the threshold, ask the notecard
LocCheckRetrieve ==
    /\ lpc = "idle"
    /\ now' = rtc
    /\ IF Elapsed(rtc, loc.state)
       THEN /\ contacted' = TRUE
            /\ contact_gap' = since_contact
            /\ since_contact' = Some(0)
            /\ \/ \* location(delay)? or .wait(delay)? or time(delay)? fails
                  /\ lpc' = "done"
                  /\ loc_ret' = <<Err("NoteError")>>
                  /\ UNCHANGED <<gps, tm>>
               \/ /\ gps' \in GpsAnswers
                  /\ tm' \in TimeAnswers
                  /\ lpc' = "set_rtc"
                  /\ UNCHANGED loc_ret
       ELSE /\ lpc' = "done"
            /\ loc_ret' = <<Ok(None)>>
            /\ UNCHANGED <<gps, tm, contacted, contact_gap, since_contact>>
    /\ UNCHANGED <<rtc, position_time, lat, lon, loc, isr>>
    /\ UNCHANGED <<faults, svars, avars, cvars>>

\* lines 139-152: the first critical section
LocSetRtc ==
    /\ lpc = "set_rtc"
    /\ lpc' = "set_pos"
    /\ IF HasTime(tm)
       THEN /\ loc' = [loc EXCEPT !.time = Unwrap(tm.val)]
            /\ rtc' = MsOfSeconds(Unwrap(tm.val))
       ELSE UNCHANGED <<loc, rtc>>
    /\ UNCHANGED <<position_time, lat, lon, now, gps, tm, contacted,
                   since_contact, contact_gap, loc_ret, isr>>
    /\ UNCHANGED <<faults, svars, avars, cvars>>

\* lines 154-175: the second critical section
LocSetPosition ==
    /\ lpc = "set_pos"
    /\ lpc' = "set_state"
    /\ IF HasPosition(gps)
       THEN /\ loc' = [loc EXCEPT !.lat = Unwrap(gps.lat),
                                  !.lon = Unwrap(gps.lon),
                                  !.position_time = Unwrap(gps.time)]
            /\ position_time' = Unwrap(gps.time)
            /\ lat' = Unwrap(gps.lat)
            /\ lon' = Unwrap(gps.lon)
       ELSE UNCHANGED <<loc, position_time, lat, lon>>
    /\ UNCHANGED <<rtc, now, gps, tm, contacted, since_contact, contact_gap,
                   loc_ret, isr>>
    /\ UNCHANGED <<faults, svars, avars, cvars>>

\* the state after an attempt: n is now, c the rtc read in the section
NextState(r, g, n, c) ==
    IF BothRetrieved(r, g) THEN Retrieved(c) ELSE Trying(n)

\* lines 177-191: the third critical section, or Trying(now); Ok(())
LocSetState ==
    /\ lpc = "set_state"
    /\ lpc' = "done"
    /\ loc' = [loc EXCEPT !.state = NextState(tm, gps, now, rtc)]
    /\ loc_ret' = <<Ok(None)>>
    /\ UNCHANGED <<rtc, position_time, lat, lon, now, gps, tm, contacted,
                   since_contact, contact_gap, isr>>
    /\ UNCHANGED <<faults, svars, avars, cvars>>

\* the caller has the result; the locals of the call are gone
LocDone ==
    /\ lpc = "done"
    /\ lpc' = "idle"
    /\ now' = 0
    /\ gps' = NoGps
    /\ tm' = Err("-")
    /\ contacted' = FALSE
    /\ contact_gap' = None
    /\ loc_ret' = <<>>
    /\ UNCHANGED <<rtc, position_time, lat, lon, loc, since_contact, isr>>
    /\ UNCHANGED <<faults, svars, avars, cvars>>

\* the interrupt reads STATE in one critical section, between two steps of
\* the main loop
IsrReadState ==
    /\ isr' = [position_time |-> position_time, lat |-> lat, lon |-> lon,
               both |-> /\ lpc \in {"set_rtc", "set_pos", "set_state"}
                        /\ HasTime(tm)
                        /\ HasPosition(gps),
               clock_set |-> lpc \in {"set_pos", "set_state"} /\ HasTime(tm),
               position_set |-> lpc = "set_state" /\ HasPosition(gps)]
    /\ UNCHANGED <<rtc, position_time, lat, lon, loc, lpc, now, gps, tm,
                   contacted, since_contact, contact_gap, loc_ret>>
    /\ UNCHANGED <<faults, svars, avars, cvars>>

(***************************************************************************)
(* sfypack: Collection::from_file. A file is a sequence of bytes; a record *)
(* is AXL_POSTCARD_SZ bytes, the payload and the zero byte that delimits   *)
(* the frame.                                                              *)
(***************************************************************************)
Bytes == 0 .. 2

AxlPackets == Bytes \ {0}

\* the stored form of a packet
Encode(pck) == <<pck, 0>>

\* postcard::from_bytes_cobs(p) on one chunk
Decode(chunk) ==
    IF chunk[AXL_POSTCARD_SZ] = 0 /\ chunk[1] # 0
    THEN Ok(Some(chunk[1]))
    ELSE Err("failed to parse package")

Files == UNION {[1 .. n -> Bytes] : n \in 0 .. MaxFileLen}

\* b.chunks_exact_mut(AXL_POSTCARD_SZ): the k-th chunk; a remainder is left out
Chunk(b, k) == SubSeq(b, (k - 1) * AXL_POSTCARD_SZ + 1, k * AXL_POSTCARD_SZ)

ChunkCount(b) == Len(b) \div AXL_POSTCARD_SZ

\* a from_file that does not look at the length
LengthUnchecked(b) == TRUE

\* ensure!(b.len() % axl::AXL_POSTCARD_SZ == 0, ...)
LengthOk(b) == Len(b) % AXL_POSTCARD_SZ = 0

\* no file is being read
CollectionIdle ==
    /\ file = <<>>
    /\ cpc = "idle"
    /\ pcks = <<>>
    /\ tried = 0
    /\ coll_ret = <<>>

\* std::fs::read(p)? and the ensure!
FromFile ==
    /\ cpc = "idle"
    /\ coll_ret = <<>>
    /\ \/ \* std::fs::read(p)? fails
          /\ cpc' = "done"
          /\ coll_ret' = <<Err("io")>>
       \/ IF LengthOk(file)
          THEN cpc' = "decode" /\ UNCHANGED coll_ret
          ELSE /\ cpc' = "done"
               /\ coll_ret' = <<Err("non-integer number of packages")>>
    /\ UNCHANGED <<file, pcks, tried>>
    /\ UNCHANGED <<faults, svars, avars, lvars>>

\* .map(from_bytes_cobs).collect::<anyhow::Result<Vec<_>>>()?: one chunk;
\* the first Err ends the collect and is returned
DecodeChunk ==
    /\ cpc = "decode"
    /\ tried < ChunkCount(file)
    /\ LET r == Decode(Chunk(file, tried + 1)) IN
       /\ tried' = tried + 1
       /\ IF r.ok
          THEN /\ pcks' = Append(pcks, Unwrap(r.val))
               /\ UNCHANGED <<cpc, coll_ret>>
          ELSE /\ cpc' = "done"
               /\ coll_ret' = <<Err(r.err)>>
               /\ UNCHANGED pcks
    /\ UNCHANGED file
    /\ UNCHANGED <<faults, svars, avars, lvars>>

\* Ok(Collection { pcks })
CollectDone ==
    /\ cpc = "decode"
    /\ tried = ChunkCount(file)
    /\ cpc' = "done"
    /\ coll_ret' = <<Ok(Some(pcks))>>
    /\ UNCHANGED <<file, pcks, tried>>
    /\ UNCHANGED <<faults, svars, avars, lvars>>

Init ==
    /\ StorageInit
    /\ faults = TRUE
    /\ ImuInit
    /\ LocationInit
    /\ CollectionIdle

StorageNext ==
    \/ ImuCheckRetrieve
    \/ NoteDrain
    \/ DrainQueueCall
    \/ DrainLoopStep
    \/ DrainLoopExit
    \/ Resync
    \/ ReplayStep
    \/ ReplayEnd
    \/ DrainQueueDone

LocationNext ==
    \/ Tick
    \/ LocCheckRetrieve
    \/ LocSetRtc
    \/ LocSetPosition
    \/ LocSetState
    \/ LocDone
    \/ IsrReadState

Next == StorageNext \/ LocationNext

Spec == Init /\ [][Next]_vars

\* the storage manager alone: the tracker does not run
SpecStorage == Init /\ [][StorageNext]_vars

\* the last call of a run, with no request or a short one outstanding
DrainInit ==
    /\ StorageInitWith({<<None, None>>, <<Some(5), Some(7)>>}, 0, MaxCalls - 1)
    /\ faults = TRUE
    /\ ImuInit
    /\ LocationInit
    /\ CollectionIdle

SpecDrain == DrainInit /\ [][StorageNext]_vars

\* a step of a drain_queue call in progress
DrainQueueSteps ==
    \/ DrainLoopStep
    \/ DrainLoopExit
    \/ Resync
    \/ ReplayStep
    \/ ReplayEnd

OverrunNext == StorageNext \/ ImuOverrun

\* the last call of a run with an interrupt that never stops; every storage
\* and notecard call returns, so a call in progress always takes its next
\* step, while the interrupt may or may not fire
SpecOverrun ==
    DrainInit /\ [][OverrunNext]_vars /\ WF_vars(DrainQueueSteps)

\* the last call of a run that starts with the storage queue one short of
\* full with packets of earlier runs, no record missing on the card and a
\* short request outstanding
Backlogs == {Capacity(STORAGEQ_SZ) - 1}

BacklogInit ==
    /\ \E k \in Backlogs :
           StorageInitFrom({<<Some(5), Some(7)>>},
                           [j \in 1 .. k |-> OldPacket(j)], 0, MaxCalls - 1)
    /\ sd_present = 0 .. StoredAtStart - 1
    /\ faults = TRUE
    /\ ImuInit
    /\ LocationInit
    /\ CollectionIdle

SpecBacklog == BacklogInit /\ [][StorageNext]_vars

\* a request the notecard holds at start, served by call after call: the
\* card and the notecard do not fail (records may be missing), the main
\* loop goes on calling drain_queue, every call takes its steps, and the
\* consumer of the notecard queue runs again and again between calls
ServedRanges == {<<Some(5), Some(t)>> : t \in 7 .. MaxReq}

ReplayInit ==
    /\ StorageInitWith(ServedRanges, MaxPackets - 1, MaxCalls)
    /\ storage
    /\ faults = FALSE
    /\ ImuInit
    /\ LocationInit
    /\ CollectionIdle

ReplayNext ==
    \/ ImuCheckRetrieve
    \/ NoteDrain
    \/ DrainQueueRecall
    \/ DrainQueueSteps
    \/ DrainQueueDone

SpecReplay ==
    /\ ReplayInit
    /\ [][ReplayNext]_vars
    /\ WF_vars(DrainQueueRecall)
    /\ WF_vars(DrainQueueSteps)
    /\ WF_vars(DrainQueueDone)
    /\ SF_vars(NoteDrain)

\* the calls of a run serving such a request while nothing consumes the
\* notecard queue, which starts empty: the queue keeps every record the
\* replay enqueued
ServeInit ==
    /\ StorageInitWith(ServedRanges, 0, 0)
    /\ storage
    /\ note_queue = <<>>
    /\ faults = FALSE
    /\ ImuInit
    /\ LocationInit
    /\ CollectionIdle

ServeNext ==
    \/ ImuCheckRetrieve
    \/ DrainQueueCall
    \/ DrainQueueSteps
    \/ DrainQueueDone

SpecServe == ServeInit /\ [][ServeNext]_vars

\* the last call of a run with the request as the notecard may report it:
\* absent, with both bounds, or with one bound only
ReportedRanges ==
    {<<None, None>>, <<Some(5), None>>, <<None, Some(7)>>,
     <<Some(5), Some(6)>>, <<Some(5), Some(7)>>, <<Some(7), Some(10)>>}

ResyncInit ==
    /\ StorageInitWith(ReportedRanges, 0, MaxCalls - 1)
    /\ faults = TRUE
    /\ ImuInit
    /\ LocationInit
    /\ CollectionIdle

SpecResync == ResyncInit /\ [][StorageNext]_vars

\* such a request is met late in a run: one packet and one call are left
LongReplayInit ==
    /\ StorageInitWith({LongRange}, MaxPackets - 1, MaxCalls - 1)
    /\ faults = TRUE
    /\ ImuInit
    /\ LocationInit
    /\ CollectionIdle

SpecLongReplay == LongReplayInit /\ [][StorageNext]_vars

\* the tracker, the rtc and the interrupt's reads of STATE: no packets move
LocationOnlyInit ==
    /\ StorageInitWith({<<None, None>>}, MaxPackets, MaxCalls)
    /\ ~storage
    /\ note_queue = <<>>
    /\ sd_present = 0 .. StoredAtStart - 1
    /\ faults = TRUE
    /\ ImuInit
    /\ LocationInit
    /\ CollectionIdle

SpecLocation == LocationOnlyInit /\ [][LocationNext]_vars

\* sfypack reading one file of up to MaxFileLen bytes; the firmware is not
\* part of that program
CollectionInit ==
    /\ StorageInitWith({<<None, None>>}, MaxPackets, MaxCalls)
    /\ ~storage
    /\ note_queue = <<>>
    /\ sd_present = 0 .. StoredAtStart - 1
    /\ faults = TRUE
    /\ ImuInit
    /\ LocationInit
    /\ file \in Files
    /\ cpc = "idle"
    /\ pcks = <<>>
    /\ tried = 0
    /\ coll_ret = <<>>

CollectionNext ==
    \/ FromFile
    \/ DecodeChunk
    \/ CollectDone

SpecCollection == CollectionInit /\ [][CollectionNext]_vars

(***************************************************************************)
(* Properties of drain_queue.                                              *)
(***************************************************************************)
StoreFailed == \E i \in 1 .. Len(store_log) : ~store_log[i].ok

StoreSucceeded == \E i \in 1 .. Len(store_log) : store_log[i].ok

FreeAtCall == Capacity(NOTEQ_SZ) - Len(note_at_call)

\* C1: when the drain loop is left and the notecard queue had room for every
\* packet the loop dequeued, the notecard queue is what it was at the call
\* followed by the dequeued packets in dequeue order, whatever store() gave
\* and whether or not there is storage.
C1_DrainForwardsAll ==
    (pc = "resync" /\ Len(dequeued) <= FreeAtCall)
        => note_queue = note_at_call \o dequeued

\* C1 witness: two packets were drained, one store() failed and one
\* succeeded, and both packets are on the notecard queue.
C1_Witness ==
    /\ pc = "resync"
    /\ Len(dequeued) >= 2
    /\ StoreFailed
    /\ StoreSucceeded
    /\ Len(dequeued) <= FreeAtCall
    /\ note_queue = note_at_call \o dequeued

Boundary(id) == (id \div COLLECTION_SIZE + 1) * COLLECTION_SIZE

\* C2: after get(id) reported FileNotFound, no id below the next collection
\* boundary is fetched in the same call; and for the request [5, 9) with 5, 6
\* and 8 on the card and 7 missing, a call that meets no full queue and no
\* other storage error sends exactly 5 and 6 and last writes the cleared
\* range.
C2_SkipToBoundary ==
    /\ \A i \in 1 .. Len(fetched) : \A j \in 1 .. Len(fetched) :
           (i < j /\ fetched[i] \notin sd_present)
               => fetched[j] >= Boundary(fetched[i])
    /\ ( /\ pc = "done"
         /\ replay_exit = "end"
         /\ range_read = Some(<<Some(5), Some(9)>>)
         /\ {5, 6, 8} \subseteq sd_present
         /\ 7 \notin sd_present )
       => (sent = <<5, 6>> /\ last_write = Some(<<None, None>>))

RangeFrom(s, t) == IF s = t THEN <<None, None>> ELSE <<Some(s), Some(t)>>

\* C3: a call that read the range [s, e), found every id it fetched and
\* enqueued k >= 1 records without meeting a full queue or a storage error
\* last writes the range [s + k, e), cleared when s + k = e.
C3_AdvanceByOnePerSend ==
    ( /\ pc = "done"
      /\ replay_exit = "end"
      /\ Len(sent) >= 1
      /\ sent = fetched )
    => last_write =
           Some(RangeFrom(Unwrap(Unwrap(range_read)[1]) + Len(sent),
                          Unwrap(Unwrap(range_read)[2])))

WellFormed(r) ==
    \/ (~IsSome(r[1]) /\ ~IsSome(r[2]))
    \/ (IsSome(r[1]) /\ IsSome(r[2]) /\ Unwrap(r[1]) <= Unwrap(r[2]))

\* C4: every range passed to write_storage_info, and the range the notecard
\* holds, has both bounds absent or both present with start <= end.
C4_RangeInvariant ==
    /\ IsSome(last_write) => WellFormed(Unwrap(last_write))
    /\ WellFormed(peer_range)

FirstStoreError ==
    LET i == CHOOSE k \in 1 .. Len(store_log) :
                 ~store_log[k].ok /\ \A m \in 1 .. k - 1 : store_log[m].ok
    IN  store_log[i]

LastStored ==
    LET i == CHOOSE k \in 1 .. Len(store_log) :
                 store_log[k].ok
                     /\ \A m \in k + 1 .. Len(store_log) : ~store_log[m].ok
    IN  store_log[i]

\* C5: a call whose replay did not abort returns the first error of the
\* store() calls of its drain loop if one failed, else the id of the last
\* packet it stored, else Ok(None).
C5_ReturnsFirstStoreError ==
    (pc = "done" /\ replay_exit # "error")
    => ret = << IF StoreFailed THEN FirstStoreError
                ELSE IF StoreSucceeded THEN LastStored
                ELSE Ok(None) >>

\* C9: one call passes at most 100 ids to get().
C9_ReplayAtMostTake == Len(fetched) <= REPLAY_TAKE

\* C9 witness: a request longer than 100 ids, with records missing, has had
\* 100 ids fetched in one call.
C9_Witness ==
    /\ Len(fetched) = REPLAY_TAKE
    /\ request_end - request_start > REPLAY_TAKE
    /\ \E i \in 1 .. Len(fetched) : fetched[i] \notin sd_present
    /\ sent # <<>>

\* C10: drain_queue never panics.
C10_NeverPanics == pc # "panic"

\* C11: every drain_queue call in progress ends (returns, or panics in
\* current_id().unwrap()), however the interrupt's enqueues on the storage
\* queue fall between the steps of the call.
C11_DrainQueueTerminates ==
    (pc \in {"drain", "resync", "replay"}) ~> (pc \in {"done", "panic"})

InRange(id, r) ==
    IsSome(r[1]) /\ IsSome(r[2]) /\ Unwrap(r[1]) <= id /\ id < Unwrap(r[2])

\* the id whose record the full notecard queue rejected
Rejected == fetched[Len(fetched)]

\* C15: the step in which the replay meets a full notecard queue ends the
\* call, writes nothing to the notecard and enqueues nothing; the call
\* returns the result of the drain loop, the rejected id is the last one
\* fetched and was not sent, and it lies inside the range the notecard
\* holds.
C15_ReplayStopsAtFull ==
    /\ [](replay_exit = "full"
            => /\ pc = "done"
               /\ ret = <<e>>
               /\ Rejected \notin {sent[i] : i \in 1 .. Len(sent)}
               /\ InRange(Rejected, peer_range))
    /\ [][(replay_exit' = "full" /\ replay_exit # "full")
              => UNCHANGED <<last_write, peer_range, peer_last_id,
                             note_queue, sent>>]_vars

\* C16: the step in which get() gives an error other than FileNotFound
\* ends the call, writes nothing to the notecard and enqueues nothing, so
\* what was written for earlier ids stays; the call returns a storage
\* error. A call returns an error only so, or as the result of its drain
\* loop: FileNotFound is never returned.
C16_ReplayAbortsOnError ==
    /\ [](replay_exit = "error"
            => /\ pc = "done"
               /\ ~ret[1].ok
               /\ ret[1].err \in StorageErrs
               /\ Rejected \notin {sent[i] : i \in 1 .. Len(sent)})
    /\ []((pc = "done" /\ ~ret[1].ok)
            => /\ ret[1].err # "FileNotFound"
               /\ replay_exit = "error" \/ ret = <<e>>)
    /\ [][(replay_exit' = "error" /\ replay_exit # "error")
              => UNCHANGED <<last_write, peer_range, peer_last_id,
                             note_queue, sent>>]_vars

\* C16 witness: a call whose drain loop gave Ok has sent a record, had its
\* range update written, then met a storage error and returned it; the
\* notecard holds the update.
C16_Witness ==
    /\ pc = "done"
    /\ replay_exit = "error"
    /\ sent # <<>>
    /\ e.ok
    /\ ~ret[1].ok
    /\ IsSome(last_write)
    /\ peer_range = Unwrap(last_write)
    /\ peer_range # Unwrap(range_read)

\* the first n items of q
Prefix(q, n) == SubSeq(q, 1, Min(Len(q), n))

\* C17: a manager built without storage never stores, fetches, replays,
\* panics or writes to the notecard, and leaves the card and the notecard's
\* storage info as they were; its call returns Ok(None) having passed every
\* dequeued packet, in order, to the notecard queue, which keeps them as
\* far as it has room.
C17_ForwardingOnly ==
    /\ [](~storage => pc \notin {"replay", "panic"})
    /\ []((pc = "done" /\ ~storage)
            => /\ ret = <<Ok(None)>>
               /\ store_log = <<>>
               /\ fetched = <<>>
               /\ sent = <<>>
               /\ last_write = None
               /\ range_read = None
               /\ note_queue = Prefix(note_at_call \o dequeued,
                                      Capacity(NOTEQ_SZ)))
    /\ [][~storage
              => UNCHANGED <<sd_present, sd_next, peer_range,
                             peer_last_id>>]_vars

\* C17 witness: without storage, and with a request outstanding at the
\* notecard, a call has forwarded two packets and returned.
C17_Witness ==
    /\ pc = "done"
    /\ ~storage
    /\ IsSome(peer_range[1])
    /\ Len(dequeued) >= 2
    /\ note_queue = note_at_call \o dequeued
    /\ ret = <<Ok(None)>>

\* C18: a poll that completes a packet while the storage queue is full
\* leaves the queue as it was, leaves the wave buffer cleared and returns
\* Ok; a poll that completes no packet enqueues nothing; a poll that
\* returns an error has completed no packet and enqueued nothing.
C18_ImuDropsNewest ==
    [][ImuCheckRetrieve
           => /\ (acquired' = acquired + 1
                      /\ Len(storage_queue) = STORAGEQ_SZ - 1)
                  => /\ storage_queue' = storage_queue
                     /\ wave_full' = FALSE
                     /\ imu_ret' = <<Ok(None)>>
              /\ (acquired' = acquired) => storage_queue' = storage_queue
              /\ ~imu_ret'[1].ok
                  => acquired' = acquired /\ storage_queue' = storage_queue
      ]_vars

\* C18 witness: before any drain, the second packet of the run was
\* completed while the backlog and the first packet filled the storage
\* queue; it is not on the queue, the buffer is clear and the poll
\* returned Ok.
C18_Witness ==
    /\ pc = "idle"
    /\ calls = MaxCalls - 1
    /\ acquired = 2
    /\ storage_queue = [j \in 1 .. Capacity(STORAGEQ_SZ) - 1 |-> OldPacket(j)]
                           \o <<ImuPacket(1)>>
    /\ wave_full = FALSE
    /\ imu_ret = <<Ok(None)>>

\* C19: a range the notecard holds with both bounds present is eventually
\* cleared, and a call that finds no request outstanding writes the highest
\* id of the card with an absent range.
C19_ReplayLiveness ==
    /\ (IsSome(peer_range[1]) /\ IsSome(peer_range[2]))
           ~> (peer_range = <<None, None>>)
    /\ []((pc = "done" /\ range_read = None)
            => /\ last_write = Some(<<None, None>>)
               /\ peer_range = <<None, None>>
               /\ peer_last_id = sd_next - 1)

\* C20: while the notecard queue has not been full, no stored record is on
\* it twice: with no consumer, no card or notecard failure and a request
\* only the replay updates, the queue holds every record the calls of the
\* run enqueued.
C20_NoDuplicateReplay ==
    Len(note_queue) < Capacity(NOTEQ_SZ)
    => \A i \in 1 .. Len(note_queue) : \A j \in 1 .. Len(note_queue) :
           (i < j /\ note_queue[i].src = "sd")
               => note_queue[i] # note_queue[j]

\* id and the ids after it up to the end of its collection include last
SkipCovers(id, last) ==
    id <= last /\ last \div COLLECTION_SIZE = id \div COLLECTION_SIZE

\* C21: the range the notecard holds goes from outstanding (a bound
\* present) to absent only in a step of the replay that sent the last id of
\* the range read in this call or skipped it with a record the card does
\* not hold; a read that fails, returns nothing or reports one bound only
\* is followed by no write that erases the request.
C21_OutstandingRequestNotErased ==
    [][ (peer_range # <<None, None>> /\ peer_range' = <<None, None>>)
            => /\ pc = "replay"
               /\ Len(fetched') = Len(fetched) + 1
               /\ LET id == fetched'[Len(fetched')]
                      last == Unwrap(Unwrap(range_read)[2]) - 1
                  IN  \/ id = last /\ sent' = Append(sent, id)
                      \/ /\ sent' = sent
                         /\ id \notin sd_present
                         /\ SkipCovers(id, last)
      ]_vars

IsSuffix(r, q) == \E k \in 0 .. Len(q) : r = SubSeq(q, k + 1, Len(q))

\* a queue of declared capacity c goes from q to r in one step
QueueStep(q, r, c) ==
    \/ r = q
    \/ Len(r) = Len(q) + 1 /\ Len(r) <= c /\ SubSeq(r, 1, Len(q)) = q
    \/ Len(r) < Len(q) /\ IsSuffix(r, q)

C6_BackoffAfterAnyAttempt ==
    IsSome(contact_gap) => Unwrap(contact_gap) >= LOCATION_DIFF

\* C7: a completed attempt leaves Retrieved(t), t read from the corrected
\* clock, exactly when a time and a full position (lat, lon and position
\* time) were returned, and Trying(now) otherwise.
C7_RetrievedIffTimeAndPosition ==
    (lpc = "done" /\ contacted /\ loc_ret = <<Ok(None)>>)
    => IF HasTime(tm) /\ HasPosition(gps)
       THEN /\ loc.state.tag = "Retrieved"
            /\ MsOfSeconds(Unwrap(tm.val)) <= loc.state.t
            /\ loc.state.t <= rtc
       ELSE loc.state = Trying(now)

\* C8: an interrupt that reads STATE during a check that obtained both time
\* and position sees the clock and the position both updated or both not.
C8_SnapshotAtomic == isr.both => (isr.clock_set = isr.position_set)

\* C13: a check called when the clock reads at most LOCATION_DIFF past the
\* timestamp of the Trying or Retrieved state returns Ok in that step,
\* sends nothing to the notecard and leaves the tracker (state, lat, lon,
\* position_time, time) and STATE (rtc, position_time, lat, lon) as they
\* were.
C13_NoOpWithinThreshold ==
    [][ (lpc = "idle" /\ lpc' # "idle" /\ rtc - loc.state.t <= LOCATION_DIFF)
            => /\ lpc' = "done"
               /\ loc_ret' = <<Ok(None)>>
               /\ ~contacted'
               /\ UNCHANGED <<loc, rtc, position_time, lat, lon>>
      ]_vars

\* C13 witness: after a retrieval that re-set the clock, and some time on
\* the new clock, a check within LOCATION_DIFF of it has returned Ok
\* without sending anything.
C13_Witness ==
    /\ lpc = "done"
    /\ ~contacted
    /\ loc_ret = <<Ok(None)>>
    /\ loc.state.tag = "Retrieved"
    /\ loc.time \in PeerTimes
    /\ rtc > loc.state.t
    /\ rtc - loc.state.t <= LOCATION_DIFF

(***************************************************************************)
(* Properties of Collection::from_file.                                    *)
(***************************************************************************)
ValidRecord(c) == \E pck \in AxlPackets : c = Encode(pck)

PacketOf(c) == CHOOSE pck \in AxlPackets : c = Encode(pck)

AllValid(b) == \A k \in 1 .. ChunkCount(b) : ValidRecord(Chunk(b, k))

\* C14: of a file that could be read, from_file returns an error without
\* handing any chunk to the decoder when the length is not a multiple of
\* AXL_POSTCARD_SZ; else, when every record is the encoding of a packet,
\* the N packets in file order (N >= 0); else an error and no packets.
C14_FromFile ==
    (cpc = "done" /\ coll_ret # <<Err("io")>>)
    => LET r == coll_ret[1] IN
       IF Len(file) % AXL_POSTCARD_SZ # 0
       THEN ~r.ok /\ r.val = None /\ tried = 0
       ELSE IF AllValid(file)
            THEN r = Ok(Some([k \in 1 .. ChunkCount(file) |->
                                 PacketOf(Chunk(file, k))]))
            ELSE ~r.ok /\ r.val = None

\* C14 witness: a file of two different valid records has been decoded to
\* its two packets in file order.
C14_Witness ==
    /\ cpc = "done"
    /\ file = Encode(2) \o Encode(1)
    /\ coll_ret = <<Ok(Some(<<2, 1>>))>>
    /\ tried = 2
=============================================================================
